---------------------------- MODULE Spec2Model ----------------------------
(***************************************************************************)
(* State machine of the trivia game component App (src/unnamed/part_000)   *)
(* with the types of src/types.ts.                                         *)
(*                                                                         *)
(* Every React state hook of App is a variable.  A handler runs to the end *)
(* and React commits all its setState calls together, so one handler call  *)
(* is one step.  A nullable value is a sequence of length at most one:     *)
(* <<>> is null and <<v>> is the value v.                                  *)
(* Tier names and field names are written without accents.                 *)
(***************************************************************************)
EXTENDS Integers, Sequences, FiniteSets, TLC

VARIABLES
    gameState,          \* useState<GameState>, part_000:13
    allQuestions,       \* the bank, part_000:14
    sessionQuestions,   \* part_000:16
    usedQuestionIds,    \* part_000:17
    currentQuestion,    \* part_000:18, nullable
    score,              \* part_000:19
    selectedAnswer,     \* part_000:20, nullable
    feedback,           \* part_000:21, nullable
    loadState,          \* position of fetchQuestions: pending, resolved, rejected
    lastEvent,          \* history: the handler that ran last
    lastPhase,          \* history: gameState when that handler was called
    asked,              \* history: ids made current since the last startGame
    correctIds          \* history: ids that got a correct answer since the last startGame

progVars == <<gameState, allQuestions, sessionQuestions, usedQuestionIds,
              currentQuestion, score, selectedAnswer, feedback>>
vars == <<gameState, allQuestions, sessionQuestions, usedQuestionIds,
          currentQuestion, score, selectedAnswer, feedback, loadState,
          lastEvent, lastPhase, asked, correctIds>>

-----------------------------------------------------------------------------
(* Bounds *)

\* largest point total the model lets score reach
MaxScore == 8
\* a tier group of at most this many questions is shuffled into every permutation
MaxFullShuffle == 3
\* largest number of questions of one tier in the banks of SpecSelect
MaxTier == 11
\* number of one-point questions of the first tier in the bank of the
\* round-by-round scenario
MaxEasy == 4

-----------------------------------------------------------------------------
(* Types *)

QUESTIONS_PER_DIFFICULTY == 10

DIFFICULTIES == <<"Facil", "Medio", "Dificil", "Experto">>

GameStates == {"Start", "ChoosingDifficulty", "Answering", "Answered", "GameOver"}

Null == <<>>

\* the strings a QuestionCard can hand to onAnswer
Answers == {"a", "b"}

TriviaQuestion(id, nivel, respuesta, puntos) ==
    [id |-> id, nivel |-> nivel, respuesta_correcta |-> respuesta,
     explicacion |-> id, puntuacion |-> puntos]

Feedback(isCorrect, correctAnswer, explanation) ==
    [isCorrect |-> isCorrect, correctAnswer |-> correctAnswer,
     explanation |-> explanation]

Range(s) == {s[i] : i \in DOMAIN s}

Ids(s) == {s[i].id : i \in DOMAIN s}

-----------------------------------------------------------------------------
(* The banks loadAndCleanQuestions can resolve with: ids are unique *)

BankMixed ==
    <<TriviaQuestion(1, "Facil", "a", 1), TriviaQuestion(2, "Facil", "b", 2),
      TriviaQuestion(3, "Medio", "a", 3)>>

BankSingle == <<TriviaQuestion(4, "Experto", "b", 2)>>

BankTwoTiers ==
    <<TriviaQuestion(1, "Dificil", "a", 2), TriviaQuestion(5, "Experto", "a", 1)>>

Banks == {<<>>, BankMixed, BankSingle, BankTwoTiers}

\* f questions of the first tier followed by m of the second
BigBank(f, m) ==
    [i \in 1..(f + m) |->
        IF i <= f THEN TriviaQuestion(i, "Facil", "a", 1)
                  ELSE TriviaQuestion(i, "Medio", "b", 2)]

\* n questions of the first tier worth one point each
BankEasy(n) == [i \in 1..n |-> TriviaQuestion(i, "Facil", "a", 1)]

RoundBanks == {BankMixed, BankTwoTiers, BankEasy(MaxEasy)}

BigBanks == {BigBank(f, m) : f \in (MaxTier - 2)..MaxTier, m \in {0, 2, MaxTier}}

-----------------------------------------------------------------------------
(* selectSessionQuestions *)

Rotate(s, k) == [i \in 1..Len(s) |-> s[((i + k - 1) % Len(s)) + 1]]

Reverse(s) == [i \in 1..Len(s) |-> s[Len(s) + 1 - i]]

\* the orders [...].sort(() => 0.5 - Math.random()) can leave s in: every
\* permutation of a short s, the rotations of s and of its reverse otherwise
Shuffles(s) ==
    IF Len(s) = 0 THEN {<<>>}
    ELSE IF Len(s) <= MaxFullShuffle
    THEN {[i \in 1..Len(s) |-> s[p[i]]] :
            p \in {f \in [1..Len(s) -> 1..Len(s)] :
                     \A i, j \in 1..Len(s) : i # j => f[i] # f[j]}}
    ELSE {Rotate(s, k) : k \in 0..(Len(s) - 1)}
         \cup {Rotate(Reverse(s), k) : k \in 0..(Len(s) - 1)}

Slice(s, n) == SubSeq(s, 1, IF Len(s) < n THEN Len(s) ELSE n)

questionsOfDifficulty(bank, difficulty) ==
    LET IsOfDifficulty(q) == q.nivel = difficulty
    IN  SelectSeq(bank, IsOfDifficulty)

selected_OneMore(shuffled) == Slice(shuffled, QUESTIONS_PER_DIFFICULTY + 1)

selected(shuffled) == Slice(shuffled, QUESTIONS_PER_DIFFICULTY)

\* the sessions selectSessionQuestions can return for the bank
selectSessionQuestions(bank) ==
    IF Len(bank) = 0 THEN {<<>>}
    ELSE {selected(s1) \o selected(s2) \o selected(s3) \o selected(s4) :
            s1 \in Shuffles(questionsOfDifficulty(bank, DIFFICULTIES[1])),
            s2 \in Shuffles(questionsOfDifficulty(bank, DIFFICULTIES[2])),
            s3 \in Shuffles(questionsOfDifficulty(bank, DIFFICULTIES[3])),
            s4 \in Shuffles(questionsOfDifficulty(bank, DIFFICULTIES[4]))}

-----------------------------------------------------------------------------
(* Derived values (useMemo) *)

availableQuestionsByDifficulty_IgnoresUsed(diff) ==
    LET IsAvailable(q) == q.nivel = diff
    IN  SelectSeq(sessionQuestions, IsAvailable)

availableQuestionsByDifficulty_IgnoresTier(diff) ==
    LET IsAvailable(q) == q.id \notin usedQuestionIds
    IN  SelectSeq(sessionQuestions, IsAvailable)

availableQuestionsByDifficulty(diff) ==
    LET IsAvailable(q) == q.nivel = diff /\ q.id \notin usedQuestionIds
    IN  SelectSeq(sessionQuestions, IsAvailable)

availableCounts(diff) == Len(availableQuestionsByDifficulty(diff))

isGameFinished_Strict ==
    IF Len(sessionQuestions) = 0 THEN FALSE
    ELSE Cardinality(usedQuestionIds) > Len(sessionQuestions)

isGameFinished ==
    IF Len(sessionQuestions) = 0 THEN FALSE
    ELSE Cardinality(usedQuestionIds) >= Len(sessionQuestions)

-----------------------------------------------------------------------------
(* Handlers *)

handleStartGame_KeepsUsed ==
    /\ score' = 0
    /\ currentQuestion' = Null
    /\ selectedAnswer' = Null
    /\ feedback' = Null
    /\ sessionQuestions' \in selectSessionQuestions(allQuestions)
    /\ gameState' = "ChoosingDifficulty"
    /\ asked' = <<>>
    /\ correctIds' = {}
    /\ UNCHANGED <<allQuestions, usedQuestionIds, loadState>>

handleStartGame ==
    /\ score' = 0
    /\ usedQuestionIds' = {}
    /\ currentQuestion' = Null
    /\ selectedAnswer' = Null
    /\ feedback' = Null
    /\ sessionQuestions' \in selectSessionQuestions(allQuestions)
    /\ gameState' = "ChoosingDifficulty"
    /\ asked' = <<>>
    /\ correctIds' = {}
    /\ UNCHANGED <<allQuestions, loadState>>

handleSelectDifficulty_NoGuard(difficulty) ==
    /\ gameState' = "Answering"
    /\ selectedAnswer' = Null
    /\ feedback' = Null
    /\ UNCHANGED <<allQuestions, sessionQuestions, usedQuestionIds,
                   currentQuestion, score, loadState, asked, correctIds>>

handleSelectDifficulty_KeepsFeedback(difficulty) ==
    LET availableQuestions == availableQuestionsByDifficulty(difficulty)
    IN  IF Len(availableQuestions) > 0
        THEN \E questionIndex \in 1..Len(availableQuestions) :
               LET question == availableQuestions[questionIndex]
               IN  /\ currentQuestion' = <<question>>
                   /\ usedQuestionIds' = usedQuestionIds \cup {question.id}
                   /\ gameState' = "Answering"
                   /\ asked' = Append(asked, question.id)
                   /\ UNCHANGED <<allQuestions, sessionQuestions, score,
                                  selectedAnswer, feedback, loadState,
                                  correctIds>>
        ELSE UNCHANGED <<progVars, loadState, asked, correctIds>>

handleSelectDifficulty_ReplacesUsed(difficulty) ==
    LET availableQuestions == availableQuestionsByDifficulty(difficulty)
    IN  IF Len(availableQuestions) > 0
        THEN \E questionIndex \in 1..Len(availableQuestions) :
               LET question == availableQuestions[questionIndex]
               IN  /\ currentQuestion' = <<question>>
                   /\ usedQuestionIds' = {question.id}
                   /\ gameState' = "Answering"
                   /\ selectedAnswer' = Null
                   /\ feedback' = Null
                   /\ asked' = Append(asked, question.id)
                   /\ UNCHANGED <<allQuestions, sessionQuestions, score,
                                  loadState, correctIds>>
        ELSE UNCHANGED <<progVars, loadState, asked, correctIds>>

handleSelectDifficulty(difficulty) ==
    LET availableQuestions == availableQuestionsByDifficulty(difficulty)
    IN  IF Len(availableQuestions) > 0
        THEN \E questionIndex \in 1..Len(availableQuestions) :
               LET question == availableQuestions[questionIndex]
               IN  /\ currentQuestion' = <<question>>
                   /\ usedQuestionIds' = usedQuestionIds \cup {question.id}
                   /\ gameState' = "Answering"
                   /\ selectedAnswer' = Null
                   /\ feedback' = Null
                   /\ asked' = Append(asked, question.id)
                   /\ UNCHANGED <<allQuestions, sessionQuestions, score,
                                  loadState, correctIds>>
        ELSE UNCHANGED <<progVars, loadState, asked, correctIds>>

handleAnswer_AlwaysScores(answer) ==
    IF currentQuestion = Null
    THEN UNCHANGED <<progVars, loadState, asked, correctIds>>
    ELSE LET question == currentQuestion[1]
             isCorrect == answer = question.respuesta_correcta
         IN  /\ selectedAnswer' = <<answer>>
             /\ score' = score + question.puntuacion
             /\ feedback' = <<Feedback(isCorrect, question.respuesta_correcta,
                                       question.explicacion)>>
             /\ gameState' = "Answered"
             /\ correctIds' = IF isCorrect THEN correctIds \cup {question.id}
                                           ELSE correctIds
             /\ UNCHANGED <<allQuestions, sessionQuestions, usedQuestionIds,
                            currentQuestion, loadState, asked>>

handleAnswer_PenalisesWrong(answer) ==
    IF currentQuestion = Null
    THEN UNCHANGED <<progVars, loadState, asked, correctIds>>
    ELSE LET question == currentQuestion[1]
             isCorrect == answer = question.respuesta_correcta
         IN  /\ selectedAnswer' = <<answer>>
             /\ score' = IF isCorrect THEN score + question.puntuacion
                                      ELSE score - question.puntuacion
             /\ feedback' = <<Feedback(isCorrect, question.respuesta_correcta,
                                       question.explicacion)>>
             /\ gameState' = "Answered"
             /\ correctIds' = IF isCorrect THEN correctIds \cup {question.id}
                                           ELSE correctIds
             /\ UNCHANGED <<allQuestions, sessionQuestions, usedQuestionIds,
                            currentQuestion, loadState, asked>>

handleAnswer_CountsOne(answer) ==
    IF currentQuestion = Null
    THEN UNCHANGED <<progVars, loadState, asked, correctIds>>
    ELSE LET question == currentQuestion[1]
             isCorrect == answer = question.respuesta_correcta
         IN  /\ selectedAnswer' = <<answer>>
             /\ score' = IF isCorrect THEN score + 1 ELSE score
             /\ feedback' = <<Feedback(isCorrect, question.respuesta_correcta,
                                       question.explicacion)>>
             /\ gameState' = "Answered"
             /\ correctIds' = IF isCorrect THEN correctIds \cup {question.id}
                                           ELSE correctIds
             /\ UNCHANGED <<allQuestions, sessionQuestions, usedQuestionIds,
                            currentQuestion, loadState, asked>>

handleAnswer_NoStoredAnswer(answer) ==
    IF currentQuestion = Null
    THEN UNCHANGED <<progVars, loadState, asked, correctIds>>
    ELSE LET question == currentQuestion[1]
             isCorrect == answer = question.respuesta_correcta
         IN  /\ score' = IF isCorrect THEN score + question.puntuacion ELSE score
             /\ feedback' = <<Feedback(isCorrect, question.respuesta_correcta,
                                       question.explicacion)>>
             /\ gameState' = "Answered"
             /\ correctIds' = IF isCorrect THEN correctIds \cup {question.id}
                                           ELSE correctIds
             /\ UNCHANGED <<allQuestions, sessionQuestions, usedQuestionIds,
                            currentQuestion, selectedAnswer, loadState, asked>>

handleAnswer(answer) ==
    IF currentQuestion = Null
    THEN UNCHANGED <<progVars, loadState, asked, correctIds>>
    ELSE LET question == currentQuestion[1]
             isCorrect == answer = question.respuesta_correcta
         IN  /\ selectedAnswer' = <<answer>>
             /\ score' = IF isCorrect THEN score + question.puntuacion ELSE score
             /\ feedback' = <<Feedback(isCorrect, question.respuesta_correcta,
                                       question.explicacion)>>
             /\ gameState' = "Answered"
             /\ correctIds' = IF isCorrect THEN correctIds \cup {question.id}
                                           ELSE correctIds
             /\ UNCHANGED <<allQuestions, sessionQuestions, usedQuestionIds,
                            currentQuestion, loadState, asked>>

handleContinue_NeverFinishes ==
    /\ gameState' = "ChoosingDifficulty"
    /\ UNCHANGED <<allQuestions, sessionQuestions, usedQuestionIds,
                   currentQuestion, score, selectedAnswer, feedback,
                   loadState, asked, correctIds>>

handleContinue ==
    /\ gameState' = IF isGameFinished THEN "GameOver" ELSE "ChoosingDifficulty"
    /\ UNCHANGED <<allQuestions, sessionQuestions, usedQuestionIds,
                   currentQuestion, score, selectedAnswer, feedback,
                   loadState, asked, correctIds>>

handleEndGame_ResetsScore ==
    /\ gameState' = "GameOver"
    /\ score' = 0
    /\ UNCHANGED <<allQuestions, sessionQuestions, usedQuestionIds,
                   currentQuestion, selectedAnswer, feedback,
                   loadState, asked, correctIds>>

handleEndGame ==
    /\ gameState' = "GameOver"
    /\ UNCHANGED <<allQuestions, sessionQuestions, usedQuestionIds,
                   currentQuestion, score, selectedAnswer, feedback,
                   loadState, asked, correctIds>>

\* fetchQuestions: the awaited load resolves and the bank is stored
fetchResolved(questions) ==
    /\ loadState = "pending"
    /\ loadState' = "resolved"
    /\ allQuestions' = questions
    /\ UNCHANGED <<gameState, sessionQuestions, usedQuestionIds, currentQuestion,
                   score, selectedAnswer, feedback, asked, correctIds>>

\* fetchQuestions: the awaited load rejects and the catch block logs it
fetchRejected_Fallback ==
    /\ loadState = "pending"
    /\ loadState' = "rejected"
    /\ allQuestions' = BankSingle
    /\ UNCHANGED <<gameState, sessionQuestions, usedQuestionIds, currentQuestion,
                   score, selectedAnswer, feedback, asked, correctIds>>

fetchRejected ==
    /\ loadState = "pending"
    /\ loadState' = "rejected"
    /\ UNCHANGED <<progVars, asked, correctIds>>

-----------------------------------------------------------------------------
(* Events: a handler called through the component renderContent shows *)

\* the score a correct answer would give stays within the model's bound
WithinScoreBound(answer) ==
    IF currentQuestion = Null THEN TRUE
    ELSE IF answer # currentQuestion[1].respuesta_correcta THEN TRUE
    ELSE score + currentQuestion[1].puntuacion <= MaxScore

Handled(event) == lastEvent' = event /\ lastPhase' = gameState

StartGame == Handled("startGame") /\ handleStartGame

SelectDifficulty(difficulty) ==
    Handled("selectDifficulty") /\ handleSelectDifficulty(difficulty)

SubmitAnswer(answer) ==
    /\ WithinScoreBound(answer)
    /\ Handled("submitAnswer")
    /\ handleAnswer(answer)

ContinueGame == Handled("continueGame") /\ handleContinue

EndGame == Handled("endGame") /\ handleEndGame

LoadResolved == \E b \in Banks : Handled("loadResolved") /\ fetchResolved(b)

LoadRejected == Handled("loadRejected") /\ fetchRejected

\* StartScreen.onStart, ResultScreen.onPlayAgain
OnStart ==
    /\ gameState \in {"Start", "Answered", "GameOver"}
    /\ StartGame

\* DifficultySelector.onSelect
OnSelect ==
    /\ gameState = "ChoosingDifficulty"
    /\ \E d \in Range(DIFFICULTIES) : SelectDifficulty(d)

\* QuestionCard.onAnswer
OnAnswer ==
    /\ gameState \in {"Answering", "Answered"}
    /\ currentQuestion # Null
    /\ \E a \in Answers : SubmitAnswer(a)

\* ResultScreen.onContinue
OnContinue ==
    /\ gameState \in {"Answered", "GameOver"}
    /\ ContinueGame

\* DifficultySelector.onEndGame, ResultScreen.onEndGame
OnEndGame ==
    /\ gameState \in {"ChoosingDifficulty", "Answered", "GameOver"}
    /\ EndGame

Init ==
    /\ gameState = "Start"
    /\ allQuestions = <<>>
    /\ sessionQuestions = <<>>
    /\ usedQuestionIds = {}
    /\ currentQuestion = Null
    /\ score = 0
    /\ selectedAnswer = Null
    /\ feedback = Null
    /\ loadState = "pending"
    /\ lastEvent = "none"
    /\ lastPhase = "Start"
    /\ asked = <<>>
    /\ correctIds = {}

Next ==
    \/ OnStart
    \/ OnSelect
    \/ OnAnswer
    \/ OnContinue
    \/ OnEndGame
    \/ LoadResolved
    \/ LoadRejected

Spec == Init /\ [][Next]_vars

-----------------------------------------------------------------------------
(* The five input events and the load delivered in every phase: the        *)
(* handlers are plain closures and none of them tests gameState.           *)

NextEvents ==
    \/ StartGame
    \/ \E d \in Range(DIFFICULTIES) : SelectDifficulty(d)
    \/ \E a \in Answers : SubmitAnswer(a)
    \/ ContinueGame
    \/ EndGame
    \/ LoadResolved
    \/ LoadRejected

SpecEvents == Init /\ [][NextEvents]_vars

-----------------------------------------------------------------------------
(* Session selection over banks that hold more than the quota of a tier *)

InitSelect ==
    /\ gameState = "Start"
    /\ allQuestions \in BigBanks
    /\ sessionQuestions = <<>>
    /\ usedQuestionIds = {}
    /\ currentQuestion = Null
    /\ score = 0
    /\ selectedAnswer = Null
    /\ feedback = Null
    /\ loadState = "resolved"
    /\ lastEvent = "loadResolved"
    /\ lastPhase = "Start"
    /\ asked = <<>>
    /\ correctIds = {}

NextSelect ==
    \/ OnStart
    \/ OnEndGame

SpecSelect == InitSelect /\ [][NextSelect]_vars

-----------------------------------------------------------------------------
(* Playing a session round by round from a loaded, non-empty bank *)

InitRounds ==
    /\ gameState = "Start"
    /\ allQuestions \in RoundBanks
    /\ sessionQuestions = <<>>
    /\ usedQuestionIds = {}
    /\ currentQuestion = Null
    /\ score = 0
    /\ selectedAnswer = Null
    /\ feedback = Null
    /\ loadState = "resolved"
    /\ lastEvent = "loadResolved"
    /\ lastPhase = "Start"
    /\ asked = <<>>
    /\ correctIds = {}

\* StartScreen.onStart
RoundStart ==
    /\ gameState = "Start"
    /\ StartGame

\* DifficultySelector.onSelect on a tier that has an available question
RoundSelect ==
    /\ gameState = "ChoosingDifficulty"
    /\ \E d \in Range(DIFFICULTIES) :
         availableCounts(d) > 0 /\ SelectDifficulty(d)

\* QuestionCard.onAnswer, once per question
RoundAnswer ==
    /\ gameState = "Answering"
    /\ \E a \in Answers : SubmitAnswer(a)

\* ResultScreen.onContinue after an answer
RoundContinue ==
    /\ gameState = "Answered"
    /\ ContinueGame

\* a further selectDifficulty once every session question has been used
RoundExtraSelect ==
    /\ isGameFinished
    /\ gameState \in {"Answered", "GameOver"}
    /\ \E d \in Range(DIFFICULTIES) : SelectDifficulty(d)

NextRounds ==
    \/ RoundStart
    \/ RoundSelect
    \/ RoundAnswer
    \/ RoundContinue
    \/ RoundExtraSelect

SpecRounds == InitRounds /\ [][NextRounds]_vars

InitPlay ==
    /\ gameState = "Start"
    /\ allQuestions \in Banks \ {<<>>}
    /\ sessionQuestions = <<>>
    /\ usedQuestionIds = {}
    /\ currentQuestion = Null
    /\ score = 0
    /\ selectedAnswer = Null
    /\ feedback = Null
    /\ loadState = "resolved"
    /\ lastEvent = "loadResolved"
    /\ lastPhase = "Start"
    /\ asked = <<>>
    /\ correctIds = {}

\* the play actions of the player: the enabled choices of the screen shown,
\* without startGame once the session exists and without endGame
PlaySelect == RoundSelect

PlayAnswer == OnAnswer

PlayContinue == RoundContinue

NextPlay ==
    \/ RoundStart
    \/ PlaySelect
    \/ PlayAnswer
    \/ PlayContinue

\* the player keeps taking the enabled play actions
SpecPlay ==
    /\ InitPlay
    /\ [][NextPlay]_vars
    /\ WF_vars(RoundStart)
    /\ WF_vars(PlaySelect)
    /\ WF_vars(PlayAnswer)
    /\ WF_vars(PlayContinue)

-----------------------------------------------------------------------------
(* Properties *)

RECURSIVE SumPoints(_)
SumPoints(qs) ==
    IF qs = {} THEN 0
    ELSE LET q == CHOOSE x \in qs : TRUE
         IN  q.puntuacion + SumPoints(qs \ {q})

Tiers == Range(DIFFICULTIES)

AllUsed == Ids(sessionQuestions) \subseteq usedQuestionIds

\* C1: within one session no question is presented twice: the ids made
\* current since the last startGame are pairwise distinct, and the current
\* question is the last of them.
C1_NoQuestionTwice ==
    /\ \A i, j \in DOMAIN asked : i # j => asked[i] # asked[j]
    /\ Range(asked) = usedQuestionIds
    /\ currentQuestion # Null => /\ asked # <<>>
                                 /\ currentQuestion[1].id = asked[Len(asked)]

C1_Witness ==
    /\ Len(asked) = 3
    /\ lastEvent = "selectDifficulty"
    /\ gameState = "Answering"

\* C2: score equals the sum of the point values of the session questions
\* answered correctly since the last startGame, each counted once.
C2_ScoreIsSumOfCorrect ==
    score = SumPoints({q \in Range(sessionQuestions) : q.id \in correctIds})

\* C3 as stated: isFinished holds exactly when every session question's id
\* is in UsedSet, the empty session included.
C3_FinishedIffAllUsed ==
    /\ isGameFinished <=> AllUsed
    /\ isGameFinished <=> Cardinality(usedQuestionIds) = Len(sessionQuestions)

\* C3 amended: isFinished holds exactly when the session is not empty and
\* every session question's id is in UsedSet (equivalently UsedSet.size ==
\* Session.size); for the empty session it is false.
C3_FinishedIffNonEmptyAllUsed ==
    /\ isGameFinished <=> (Len(sessionQuestions) > 0 /\ AllUsed)
    /\ AllUsed <=> Cardinality(usedQuestionIds) = Len(sessionQuestions)

C3_Witness ==
    /\ isGameFinished
    /\ Len(sessionQuestions) = 3

\* C4: once the phase is GameOver every event but startGame leaves it
\* GameOver, and startGame moves it to ChoosingDifficulty.
C4_GameOverTerminal ==
    [][gameState = "GameOver" =>
         IF lastEvent' = "startGame" THEN gameState' = "ChoosingDifficulty"
                                     ELSE gameState' = "GameOver"]_vars

\* C5: the session holds at most QUESTIONS_PER_DIFFICULTY questions of each
\* tier, only questions of the bank, and none of them twice.
C5_SessionWithinQuota ==
    /\ \A t \in Tiers :
         Len(questionsOfDifficulty(sessionQuestions, t)) <= 10
    /\ Range(sessionQuestions) \subseteq Range(allQuestions)
    /\ \A i, j \in DOMAIN sessionQuestions :
         i # j => sessionQuestions[i] # sessionQuestions[j]

C5_Witness ==
    /\ Len(questionsOfDifficulty(allQuestions, "Facil")) > 10
    /\ Len(questionsOfDifficulty(sessionQuestions, "Facil")) = 10
    /\ Len(questionsOfDifficulty(sessionQuestions, "Medio")) = 2

PositionOf(q) == CHOOSE i \in DOMAIN sessionQuestions : sessionQuestions[i] = q

\* C6: the available questions of a tier are the session questions of that
\* tier whose id is not used, in session order, and the available ids of
\* all tiers together with UsedSet partition the session ids.
C6_AvailabilityPartition ==
    LET avail(t) == availableQuestionsByDifficulty(t)
        availIds == UNION {Ids(avail(t)) : t \in Tiers}
    IN  /\ \A t \in Tiers :
             /\ Range(avail(t)) =
                  {q \in Range(sessionQuestions) :
                     q.nivel = t /\ q.id \notin usedQuestionIds}
             /\ \A i, j \in DOMAIN avail(t) :
                  i < j => PositionOf(avail(t)[i]) < PositionOf(avail(t)[j])
        /\ \A t, u \in Tiers : t # u => Ids(avail(t)) \cap Ids(avail(u)) = {}
        /\ availIds \cap usedQuestionIds = {}
        /\ availIds \cup usedQuestionIds = Ids(sessionQuestions)
        /\ usedQuestionIds \subseteq Ids(sessionQuestions)

C6_Witness ==
    /\ Cardinality(usedQuestionIds) = 1
    /\ availableCounts("Facil") = 1
    /\ availableCounts("Medio") = 1
    /\ asked = <<2>>

\* C7: selectDifficulty on a tier with no available question and
\* submitAnswer with no current question leave the whole state unchanged.
C7_GuardedNoOps ==
    [][/\ \A d \in Tiers :
            (SelectDifficulty(d) /\ availableCounts(d) = 0)
               => UNCHANGED progVars
       /\ \A a \in Answers :
            (SubmitAnswer(a) /\ currentQuestion = Null)
               => UNCHANGED progVars]_vars

C7_Witness ==
    /\ lastEvent = "selectDifficulty"
    /\ lastPhase = "ChoosingDifficulty"
    /\ gameState = "ChoosingDifficulty"
    /\ feedback # Null
    /\ \E d \in Tiers : availableCounts(d) > 0

\* the second case of C7: submitAnswer handled with no current question
C7_WitnessSubmit ==
    /\ lastEvent = "submitAnswer"
    /\ currentQuestion = Null
    /\ gameState = "ChoosingDifficulty"
    /\ sessionQuestions # <<>>

\* C8: a successful selectDifficulty in ChoosingDifficulty makes an
\* available question of the chosen tier current, adds exactly its id to
\* UsedSet, clears answer and Feedback, moves to Answering and leaves score
\* and session alone.
C8_SelectEffect ==
    [][\A d \in Tiers :
         (/\ SelectDifficulty(d)
          /\ gameState = "ChoosingDifficulty"
          /\ availableCounts(d) > 0)
         => /\ currentQuestion' # Null
            /\ currentQuestion'[1] \in Range(availableQuestionsByDifficulty(d))
            /\ currentQuestion'[1] \in Range(sessionQuestions)
            /\ currentQuestion'[1].nivel = d
            /\ usedQuestionIds' = usedQuestionIds \cup {currentQuestion'[1].id}
            /\ Cardinality(usedQuestionIds') = Cardinality(usedQuestionIds) + 1
            /\ selectedAnswer' = Null
            /\ feedback' = Null
            /\ gameState' = "Answering"
            /\ UNCHANGED <<score, sessionQuestions>>]_vars

C8_Witness ==
    /\ lastEvent = "selectDifficulty"
    /\ lastPhase = "ChoosingDifficulty"
    /\ gameState = "Answering"
    /\ Cardinality(usedQuestionIds) = 2
    /\ score > 0

\* C9: submitAnswer(a) in Answering stores a, sets Feedback from the current
\* question, adds the point value to score exactly when a is the correct
\* answer, moves to Answered and leaves UsedSet, session and current
\* question alone.
C9_AnswerEffect ==
    [][\A a \in Answers :
         (SubmitAnswer(a) /\ gameState = "Answering")
         => LET q == currentQuestion[1]
            IN  /\ gameState' = "Answered"
                /\ selectedAnswer' = <<a>>
                /\ feedback' = <<Feedback(a = q.respuesta_correcta,
                                          q.respuesta_correcta, q.explicacion)>>
                /\ score' = IF a = q.respuesta_correcta
                            THEN score + q.puntuacion ELSE score
                /\ UNCHANGED <<usedQuestionIds, sessionQuestions,
                               currentQuestion>>]_vars

C9_Witness ==
    /\ lastEvent = "submitAnswer"
    /\ lastPhase = "Answering"
    /\ gameState = "Answered"
    /\ feedback # Null
    /\ ~feedback[1].isCorrect
    /\ score = 3

\* C10: continueGame in Answered moves to GameOver when every session id is
\* used and to ChoosingDifficulty otherwise, changes nothing else, and never
\* reaches ChoosingDifficulty with no question available.
C10_ContinueEffect ==
    [][(ContinueGame /\ gameState = "Answered")
         => /\ gameState' = IF AllUsed THEN "GameOver" ELSE "ChoosingDifficulty"
            /\ UNCHANGED <<score, usedQuestionIds, sessionQuestions,
                           allQuestions, currentQuestion, selectedAnswer,
                           feedback>>
            /\ gameState' = "ChoosingDifficulty"
                 => \E d \in Tiers : availableCounts(d) > 0]_vars

C10_Witness ==
    /\ lastEvent = "continueGame"
    /\ lastPhase = "Answered"
    /\ gameState = "GameOver"
    /\ AllUsed
    /\ Len(sessionQuestions) = 2

\* C11: endGame from ChoosingDifficulty or Answered moves to GameOver
\* whatever the completion status and leaves score, UsedSet and session
\* unchanged.
C11_EndGameEffect ==
    [][(EndGame /\ gameState \in {"ChoosingDifficulty", "Answered"})
         => /\ gameState' = "GameOver"
            /\ UNCHANGED <<score, usedQuestionIds, sessionQuestions>>]_vars

C11_Witness ==
    /\ lastEvent = "endGame"
    /\ lastPhase = "ChoosingDifficulty"
    /\ gameState = "GameOver"
    /\ score = 3
    /\ Cardinality(usedQuestionIds) = 1
    /\ ~AllUsed

Min(a, b) == IF a < b THEN a ELSE b

\* C12: right after startGame, from any phase, score is 0, UsedSet is
\* empty, current question, answer and Feedback are null, the phase is
\* ChoosingDifficulty and the session is drawn from the bank as it is then:
\* only bank questions, and of each tier as many as the bank has, up to 10.
C12_StartGameResets ==
    lastEvent = "startGame"
      => /\ score = 0
         /\ usedQuestionIds = {}
         /\ currentQuestion = Null
         /\ selectedAnswer = Null
         /\ feedback = Null
         /\ gameState = "ChoosingDifficulty"
         /\ Range(sessionQuestions) \subseteq Range(allQuestions)
         /\ \A t \in Tiers :
              Len(questionsOfDifficulty(sessionQuestions, t))
                = Min(10, Len(questionsOfDifficulty(allQuestions, t)))

C12_Witness ==
    /\ lastEvent = "startGame"
    /\ lastPhase = "Answering"
    /\ Len(sessionQuestions) = 3

\* C13: once the load has failed the bank and the session are empty, every
\* tier's available count is 0, the phase is never Answering or Answered,
\* score is 0, and startGame still leads to ChoosingDifficulty.
C13_LoadFailureContained ==
    loadState = "rejected"
      => /\ allQuestions = <<>>
         /\ sessionQuestions = <<>>
         /\ \A t \in Tiers : availableCounts(t) = 0
         /\ gameState \notin {"Answering", "Answered"}
         /\ usedQuestionIds = {}
         /\ currentQuestion = Null
         /\ score = 0
         /\ lastEvent = "startGame" => gameState = "ChoosingDifficulty"

C13_Witness ==
    /\ loadState = "rejected"
    /\ lastEvent = "selectDifficulty"
    /\ lastPhase = "ChoosingDifficulty"
    /\ gameState = "ChoosingDifficulty"

\* C14: while the load is pending every tier's availability is empty and
\* no selectDifficulty has succeeded: the phase is not Answering.
C14_NoSelectBeforeLoad ==
    loadState = "pending"
      => /\ \A t \in Tiers : availableCounts(t) = 0
         /\ gameState # "Answering"
         /\ usedQuestionIds = {}
         /\ asked = <<>>

C14_Witness ==
    /\ loadState = "pending"
    /\ lastEvent = "selectDifficulty"
    /\ lastPhase = "ChoosingDifficulty"
    /\ gameState = "ChoosingDifficulty"

\* C15: every event but startGame leaves the session unchanged and UsedSet
\* a superset of what it was.
C15_SessionFrame ==
    [][lastEvent' # "startGame"
         => /\ sessionQuestions' = sessionQuestions
            /\ usedQuestionIds \subseteq usedQuestionIds']_vars

C15_Witness ==
    /\ lastEvent = "loadResolved"
    /\ lastPhase = "ChoosingDifficulty"
    /\ allQuestions # <<>>
    /\ sessionQuestions = <<>>

\* C16: every event but startGame leaves score equal or larger.
C16_ScoreNeverDecreases ==
    [][lastEvent' # "startGame" => score' >= score]_vars

C16_Witness ==
    /\ lastEvent = "submitAnswer"
    /\ feedback # Null
    /\ ~feedback[1].isCorrect
    /\ score = 1
    /\ Len(asked) = 2

\* C17: in a session of n >= 1 questions at most n selectDifficulty events
\* succeed; once every question was drawn and answered correctly, one
\* answer each, score is the sum of all session point values, isFinished is
\* true, and every further selectDifficulty leaves the state unchanged.
C17_FullSession ==
    /\ [](Len(asked) <= Len(sessionQuestions))
    /\ []((Len(sessionQuestions) >= 1 /\ correctIds = Ids(sessionQuestions))
            => /\ score = SumPoints(Range(sessionQuestions))
               /\ isGameFinished
               /\ \A t \in Tiers : availableCounts(t) = 0)
    /\ [][\A d \in Tiers :
            (SelectDifficulty(d) /\ Len(asked) = Len(sessionQuestions))
               => UNCHANGED progVars]_vars

C17_Witness ==
    /\ allQuestions = BankEasy(MaxEasy)
    /\ correctIds = Ids(sessionQuestions)
    /\ score = MaxEasy
    /\ lastEvent = "selectDifficulty"
    /\ lastPhase = "Answered"
    /\ gameState = "Answered"

\* C18: when the player keeps taking the enabled play actions of a
\* non-empty session and never starts again, the phase eventually becomes
\* GameOver, reached by continueGame after as many rounds as the session
\* has questions.
C18_EventuallyGameOver ==
    /\ (sessionQuestions # <<>>) ~> (gameState = "GameOver")
    /\ [](gameState = "GameOver"
            => /\ Len(asked) = Len(sessionQuestions)
               /\ lastEvent = "continueGame")

C18_Witness ==
    /\ gameState = "GameOver"
    /\ Len(asked) = 3
    /\ lastEvent = "continueGame"

\* C19: in ChoosingDifficulty with a non-empty session at least one tier
\* has an available question.
C19_ChoiceAvailable ==
    (gameState = "ChoosingDifficulty" /\ sessionQuestions # <<>>)
      => \E t \in Tiers : availableCounts(t) > 0

C19_Witness ==
    /\ gameState = "ChoosingDifficulty"
    /\ lastEvent = "continueGame"
    /\ Len(sessionQuestions) = 3
    /\ Cardinality(usedQuestionIds) = 2

\* C20: phase and data agree: in Answering the current question is a
\* session question whose id is used and answer and Feedback are null; in
\* Answered the Feedback matches the current question and the stored
\* answer; in Start and right after startGame all three are null.
C20_PhaseDataConsistent ==
    /\ gameState = "Answering"
         => /\ currentQuestion # Null
            /\ currentQuestion[1] \in Range(sessionQuestions)
            /\ currentQuestion[1].id \in usedQuestionIds
            /\ selectedAnswer = Null
            /\ feedback = Null
    /\ gameState = "Answered"
         => /\ currentQuestion # Null
            /\ feedback # Null
            /\ feedback[1].correctAnswer = currentQuestion[1].respuesta_correcta
            /\ feedback[1].isCorrect
                 = (selectedAnswer = <<currentQuestion[1].respuesta_correcta>>)
    /\ (gameState = "Start" \/ lastEvent = "startGame")
         => /\ currentQuestion = Null
            /\ selectedAnswer = Null
            /\ feedback = Null

C20_Witness ==
    /\ gameState = "Answered"
    /\ lastPhase = "Answered"
    /\ lastEvent = "submitAnswer"
    /\ feedback[1].isCorrect
    /\ Len(asked) = 2

=============================================================================
